---- MODULE Spec2Model ----
(***************************************************************************)
(* Deployment tracking: the ledgers of deployments, the resolution of the  *)
(* current deployment of a key, the health label of an environment and the *)
(* version changelog, as implemented by the four tool sets of the          *)
(* repository:                                                             *)
(*   "memory"  the in-memory tools (version_tools.py, deployment_tools.py) *)
(*   "sqlite"  DatabaseManager and the tools built on it                   *)
(*             (database.py, version_tools_new.py, deployment_tools_new.py,*)
(*             the query of multi_app_dashboard.py)                        *)
(*   "org"     the multi-organisation tools (multi_org_*_tools.py)         *)
(*   "hier"    the component-based dashboard tools (dashboard_tools.py)    *)
(* The tool sets keep separate state and never call each other, so a       *)
(* behaviour exercises one of them; `backend` says which.                  *)
(***************************************************************************)
EXTENDS Integers, Sequences, FiniteSets, TLC

----------------------------------------------------------------------------
(* Bounds of the model                                                     *)

\* rows of a ledger whose rows vary in every field
MaxLedger == 2
\* rows of a single-environment ledger whose rows vary in status only
MaxRateLedger == 5
\* wall-clock readings: datetime.now() is not monotonic, readings may repeat
MaxTime == 2
\* note lines kept on one deployment
MaxNotes == 1
\* rows of the versions table
MaxVersions == 2

----------------------------------------------------------------------------
(* Values                                                                  *)

\* Python's None / SQL NULL for identifiers and timestamps (both start at 1)
None == 0

Times == 1..MaxTime

\* class Environment(str, Enum)
Environment == {"dev", "pre", "prod"}

\* class DeploymentStatus(str, Enum)
DeploymentStatus == {"pending", "in_progress", "success", "failed", "rollback"}

\* strings a caller passes as an environment
EnvironmentInputs == {"dev", "pre", "prod", "PROD", "qa"}

\* strings a caller passes as a status
StatusInputs == DeploymentStatus \cup {"SUCCESS", "done"}

\* str.lower() on the strings above
Lower(s) ==
    CASE s = "PROD" -> "prod"
      [] s = "SUCCESS" -> "success"
      [] OTHER -> s

\* notes a caller passes: none, or one line
NoteInputs == {"", "note"}

\* version strings in use
VersionStrings == {"1.0.0", "1.1.0"}

----------------------------------------------------------------------------
(* State                                                                   *)

VARIABLES
    backend,         \* the tool set this behaviour exercises
    VERSIONS_DB,     \* memory: environment -> list of Version
    DEPLOYMENTS_DB,  \* memory: list of Deployment
    applications,    \* data/deployments.db: ids of the rows of applications
    versions,        \* data/deployments.db: rows of versions, in rowid order
    deployments,     \* data/deployments.db: rows of deployments, in rowid order
    app_environment_status,  \* data/deployments.db: rows of that table
    application_components,  \* data/deployments.db: rows of that table
    result,          \* what the last call returned
    tools,           \* ToolRegistry.tools: name -> description of the tool
    handlers,        \* ToolRegistry._handlers: name -> handler
    incidents,       \* data/deployments.db: rows of incidents
    pc,              \* concurrent callers: the statement each is at
    local            \* concurrent callers: what each has read so far

memvars == <<VERSIONS_DB, DEPLOYMENTS_DB>>

dbvars == <<applications, versions, deployments, app_environment_status>>

\* the registry, the incidents and the concurrent callers
othervars == <<tools, handlers, incidents, pc, local>>

vars == <<backend, VERSIONS_DB, DEPLOYMENTS_DB, applications, versions,
          deployments, app_environment_status, application_components, result,
          tools, handlers, incidents, pc, local>>

\* the shape of a returned value; a call fills the fields it reports
NoResult ==
    [op |-> "none", error |-> FALSE, env |-> "", id |-> None, status |-> "",
     version |-> "", version2 |-> "",
     current |-> None, successful |-> 0, total |-> 0, rate |-> 0,
     health |-> "", new_features |-> {}, new_bug_fixes |-> {},
     new_breaking_changes |-> {}, app |-> "", environment_id |-> None,
     rows |-> {}, handler |-> "", notes |-> "", issues |-> 0, history |-> <<>>,
     limit |-> 0]

\* the callers that may run at the same time
Procs == {1, 2}

\* an empty registry, no incident, no caller running
Idle ==
    /\ tools = [n \in {} |-> ""]
    /\ handlers = [n \in {} |-> ""]
    /\ incidents = {}
    /\ pc = [p \in Procs |-> "idle"]
    /\ local = [p \in Procs |-> None]

----------------------------------------------------------------------------
(* Sequences                                                               *)

Range(s) == {s[i] : i \in DOMAIN s}

\* the least of a set of positions, 0 when it is empty: with the positions
\* of the elements passing a test, next((x for x in s if test(x)), None)
First(I) == IF I = {} THEN 0 ELSE CHOOSE i \in I : \A j \in I : i <= j

\* sequences over S of length lo..hi
SeqsBetween(S, lo, hi) == UNION {[1..n -> S] : n \in lo..hi}

----------------------------------------------------------------------------
(* pydantic models (src/models/deployment.py)                              *)

\* fields of Version declared with Field(...): the constructor raises
\* ValidationError (a ValueError) unless all of them are given
VersionRequired == {"version", "application_id", "branch", "commit_hash", "build_number"}

\* fields of Deployment declared with Field(...)
DeploymentRequired == {"id", "application_id", "environment", "version", "status", "deployed_by"}

\* fields of ChangeLog declared with Field(...)
ChangeLogRequired == {"application_id", "from_version", "to_version"}

\* BaseModel.__init__ accepts the keyword arguments `given`
Validates(required, given) == required \subseteq given

----------------------------------------------------------------------------
(* In-memory tools: src/src/tools/deployment/version_tools.py and          *)
(* deployment_tools.py                                                     *)

\* a stored Version
VersionRecord(version, application_id, features, bug_fixes, breaking_changes) ==
    [version |-> version, application_id |-> application_id,
     features |-> features, bug_fixes |-> bug_fixes,
     breaking_changes |-> breaking_changes]

\* the lists create_sample_version gives a new version
SampleFeatures(version) ==
    <<IF version = "1.0.0" THEN "Nueva funcionalidad de 1.0.0"
                           ELSE "Nueva funcionalidad de 1.1.0",
      "Mejora en la interfaz de usuario", "Optimizacion de rendimiento">>

SampleBugFixes(version) ==
    <<IF version = "1.0.0" THEN "Correccion de bug critico en 1.0.0"
                           ELSE "Correccion de bug critico en 1.1.0",
      "Fix en validacion de formularios">>

SampleBreakingChanges(version) ==
    <<IF version = "1.0.0" THEN "Cambio de API en 1.0.0" ELSE "Cambio de API en 1.1.0">>

\* keyword arguments create_sample_version passes to Version(...)
SampleVersionGiven ==
    {"version", "branch", "commit_hash", "build_number", "commits",
     "features", "bug_fixes", "breaking_changes"}

\* keyword arguments register_deployment passes to Deployment(...)
RegisterDeploymentGiven ==
    {"id", "environment", "version", "status", "deployed_by", "started_at", "notes"}

\* keyword arguments compare_versions passes to ChangeLog(...)
CompareChangeLogGiven ==
    {"from_version", "to_version", "commits", "features", "bug_fixes", "breaking_changes"}

\* a Deployment of the in-memory ledger
DeploymentRecord(id, environment, version, status, deployed_at, started_at, notes) ==
    [id |-> id, environment |-> environment, version |-> version,
     status |-> status, deployed_at |-> deployed_at, started_at |-> started_at,
     completed_at |-> None, notes |-> notes]

\* f"{deployment.notes}\n{notes}".strip(), notes kept as their list of lines
JoinNotes(old, new) == IF new = "" THEN old ELSE Append(old, new)

\* position in VERSIONS_DB[env] of the first version with this string
VersionIndex(env, version) ==
    LET Is(v) == v.version = version IN First({k \in DOMAIN VERSIONS_DB[env] : Is(VERSIONS_DB[env][k])})

\* position of the newest entry of DEPLOYMENTS_DB, whatever its id
LastDeploymentIndex(deployment_id) == Len(DEPLOYMENTS_DB)

\* position in DEPLOYMENTS_DB of the first deployment with this id
DeploymentIndex(deployment_id) ==
    LET Is(d) == d.id = deployment_id IN First({k \in DOMAIN DEPLOYMENTS_DB : Is(DEPLOYMENTS_DB[k])})

create_sample_version(environment, version) ==
    /\ backend = "memory"
    /\ LET env == Lower(environment)
           new_version == VersionRecord(version, "", SampleFeatures(version),
                                        SampleBugFixes(version),
                                        SampleBreakingChanges(version))
           failed == [NoResult EXCEPT !.op = "create_sample_version",
                                      !.error = TRUE, !.env = environment,
                                      !.version = version]
       IN  IF \/ env \notin Environment
              \/ ~Validates(VersionRequired, SampleVersionGiven)
              \/ VersionIndex(env, version) # 0
           THEN /\ result' = failed
                /\ UNCHANGED memvars
           ELSE /\ VERSIONS_DB' = [VERSIONS_DB EXCEPT ![env] = Append(@, new_version)]
                /\ result' = [failed EXCEPT !.error = FALSE]
                /\ UNCHANGED DEPLOYMENTS_DB
    /\ UNCHANGED <<backend, othervars, dbvars, application_components>>

register_deployment(environment, version, notes, new_id, now) ==
    /\ backend = "memory"
    /\ LET env == Lower(environment)
           failed == [NoResult EXCEPT !.op = "register_deployment",
                                      !.error = TRUE, !.env = environment,
                                      !.version = version]
       IN  IF \/ env \notin Environment
              \/ VersionIndex(env, version) = 0
              \/ ~Validates(DeploymentRequired, RegisterDeploymentGiven)
           THEN /\ result' = failed
                /\ UNCHANGED memvars
           ELSE /\ DEPLOYMENTS_DB' =
                       Append(DEPLOYMENTS_DB,
                              DeploymentRecord(new_id, env, version, "in_progress",
                                               now, now, JoinNotes(<<>>, notes)))
                /\ result' = [failed EXCEPT !.error = FALSE, !.id = new_id,
                                            !.status = "in_progress"]
                /\ UNCHANGED VERSIONS_DB
    /\ UNCHANGED <<backend, othervars, dbvars, application_components>>

\* every string taken for a status
AnyStatus(value) == TRUE

\* DeploymentStatus(value) returns a member instead of raising ValueError
IsDeploymentStatus(value) == value \in DeploymentStatus

update_deployment_status(deployment_id, status, notes, now) ==
    /\ backend = "memory"
    /\ LET i == DeploymentIndex(deployment_id) IN
         i # 0 /\ notes # "" => Len(DEPLOYMENTS_DB[i].notes) < MaxNotes
    /\ LET i == DeploymentIndex(deployment_id)
           new_status == Lower(status)
           failed == [NoResult EXCEPT !.op = "update_deployment_status",
                                      !.error = TRUE, !.id = deployment_id,
                                      !.status = status, !.notes = notes]
       IN  IF i = 0 \/ ~IsDeploymentStatus(new_status)
           THEN /\ result' = failed
                /\ UNCHANGED memvars
           ELSE /\ DEPLOYMENTS_DB' =
                       [DEPLOYMENTS_DB EXCEPT
                          ![i].status = new_status,
                          ![i].notes = JoinNotes(@, notes),
                          ![i].completed_at =
                              IF new_status \in {"success", "failed"} THEN now ELSE @]
                /\ result' = [failed EXCEPT !.error = FALSE]
                /\ UNCHANGED VERSIONS_DB
    /\ UNCHANGED <<backend, othervars, dbvars, application_components>>

\* the whole ledger, whatever the environment
AllDeployments(env) == DEPLOYMENTS_DB

\* the deployments of one environment, in ledger order
EnvDeployments(env) ==
    LET In(d) == d.environment = env IN SelectSeq(DEPLOYMENTS_DB, In)

\* s without its i-th element
RemoveAt(s, i) == SubSeq(s, 1, i - 1) \o SubSeq(s, i + 1, Len(s))

\* s from its last element to its first
Reversed(s) == [i \in DOMAIN s |-> s[Len(s) + 1 - i]]

\* sorted(s, key=lambda d: d.deployed_at, reverse=True): Python's sort is
\* stable, so rows of equal deployed_at keep their order in s
RECURSIVE SortedByDeployedAtDesc(_)
SortedByDeployedAtDesc(s) ==
    IF s = <<>> THEN <<>>
    ELSE LET IsMax(d) == \A j \in DOMAIN s : s[j].deployed_at <= d.deployed_at
             i == First({k \in DOMAIN s : IsMax(s[k])})
         IN  <<s[i]>> \o SortedByDeployedAtDesc(RemoveAt(s, i))

\* the deployments of s that ended, successfully or not
CompletedCount(s) == Cardinality({i \in DOMAIN s : s[i].status \in {"success", "failed"}})

\* len([d for d in env_deployments if d.status == DeploymentStatus.SUCCESS])
SuccessfulCount(s) == Cardinality({i \in DOMAIN s : s[i].status = "success"})

\* success_rate > percent
RateAbove(successful, total, percent) ==
    IF total > 0 THEN successful * 100 > percent * total ELSE 0 > percent

\* success_rate >= percent, where success_rate is
\* successful / total * 100 if total > 0 else 0
RateAtLeast(successful, total, percent) ==
    IF total > 0 THEN successful * 100 >= percent * total ELSE 0 >= percent

\* round(success_rate, 2), in hundredths of a percent (round half to even)
SuccessRatePercentage(successful, total) ==
    IF total = 0 THEN 0
    ELSE LET n == successful * 10000
             q == n \div total
             r == n % total
         IN  IF 2 * r > total \/ (2 * r = total /\ q % 2 = 1) THEN q + 1 ELSE q

\* the "health_status" entry of the metrics
HealthStatus(successful, total) ==
    IF RateAtLeast(successful, total, 80) THEN "healthy"
    ELSE IF RateAtLeast(successful, total, 60) THEN "warning"
    ELSE "critical"

\* what get_environment_status returns for a valid environment
EnvironmentStatus(env) ==
    LET env_deployments == EnvDeployments(env)
        successful_deployments == SuccessfulCount(env_deployments)
        total_deployments == Len(env_deployments)
    IN  [NoResult EXCEPT
           !.op = "get_environment_status",
           !.env = env,
           !.current = IF env_deployments # <<>>
                       THEN SortedByDeployedAtDesc(env_deployments)[1].id
                       ELSE None,
           !.successful = successful_deployments,
           !.total = total_deployments,
           !.rate = SuccessRatePercentage(successful_deployments, total_deployments),
           !.health = HealthStatus(successful_deployments, total_deployments)]

get_environment_status(environment) ==
    /\ backend = "memory"
    /\ LET env == Lower(environment) IN
       result' = IF env \notin Environment
                 THEN [NoResult EXCEPT !.op = "get_environment_status",
                                       !.error = TRUE, !.env = environment]
                 ELSE EnvironmentStatus(env)
    /\ UNCHANGED <<backend, othervars, memvars, dbvars, application_components>>

\* list(set(b) - set(a)) of two lists, as a set
ListDifference(b, a) == Range(b) \ Range(a)

compare_versions(environment, version1, version2) ==
    /\ backend = "memory"
    /\ LET env == Lower(environment)
           failed == [NoResult EXCEPT !.op = "compare_versions", !.error = TRUE,
                                      !.env = environment, !.version = version1,
                                      !.version2 = version2]
       IN  result' =
             IF \/ env \notin Environment
                \/ VersionIndex(env, version1) = 0
                \/ VersionIndex(env, version2) = 0
                \/ ~Validates(ChangeLogRequired, CompareChangeLogGiven)
             THEN failed
             ELSE LET v1 == VERSIONS_DB[env][VersionIndex(env, version1)]
                      v2 == VERSIONS_DB[env][VersionIndex(env, version2)]
                  IN  [failed EXCEPT
                         !.error = FALSE,
                         !.new_features = ListDifference(v2.features, v1.features),
                         !.new_bug_fixes = ListDifference(v2.bug_fixes, v1.bug_fixes),
                         !.new_breaking_changes =
                             ListDifference(v2.breaking_changes, v1.breaking_changes)]
    /\ UNCHANGED <<backend, othervars, memvars, dbvars, application_components>>

----------------------------------------------------------------------------
(* Contents of the in-memory stores when a tool is called.  The two lists  *)
(* are module globals; the tools above are called on whatever they hold.   *)

\* deployment ids (uuid4 strings: drawn in no particular order)
Ids == 1..MaxLedger

\* a version store: versions 1.0.0 (features A) and 1.1.0 (features A, B) in
\* the environments of S, nothing elsewhere
VersionStore(S) ==
    [e \in Environment |->
        IF e \in S
        THEN <<VersionRecord("1.0.0", "app1", <<"A">>, <<>>, <<>>),
               VersionRecord("1.1.0", "app1", <<"A", "B">>, <<"B">>, <<>>)>>
        ELSE <<>>]


\* statuses of the deployments of a ledger: a successful, a failed and an
\* in-flight one
LedgerStatuses == {"success", "failed", "in_progress"}

\* ledgers of at most MaxLedger deployments with distinct ids, the defaults
\* of the model for started_at, completed_at and notes
FullLedgers ==
    {s \in SeqsBetween([id : Ids, environment : {"dev", "prod"},
                        version : {"1.0.0"}, status : LedgerStatuses,
                        deployed_at : Times, started_at : {None},
                        completed_at : {None}, notes : {<<>>}], 0, MaxLedger) :
        \A i, j \in DOMAIN s : i # j => s[i].id # s[j].id}

\* longer ledgers of one environment, one deployed_at, ids in ledger order
RateLedgers ==
    {[i \in DOMAIN st |->
        DeploymentRecord(i, "prod", "1.0.0", st[i], 1, None, <<>>)] :
       st \in SeqsBetween(LedgerStatuses,
                          MaxLedger + 1, MaxRateLedger)}

\* data/deployments.db before any tool has written to it
EmptyDatabase ==
    /\ applications = {}
    /\ versions = <<>>
    /\ deployments = <<>>
    /\ app_environment_status = {}
    /\ application_components = {}

MemoryInit ==
    /\ backend = "memory"
    /\ VERSIONS_DB = VersionStore({"dev"})
    /\ DEPLOYMENTS_DB \in FullLedgers \cup RateLedgers
    /\ EmptyDatabase
    /\ result = NoResult
    /\ Idle

----------------------------------------------------------------------------
(* DatabaseManager (src/src/storage/database.py) and the tools on it:      *)
(* version_tools_new.py, deployment_tools_new.py, and the overview query   *)
(* of multi_app_dashboard.py, which reads the same tables                  *)

\* class ApplicationType(str, Enum)
ApplicationType == {"frontend", "backend", "microservice", "database", "infrastructure"}

\* application ids a caller passes
AppIds == {"app1", "app2"}

\* the change lists a caller gives a new version
ChangeInputs ==
    [v \in VersionStrings |->
        IF v = "1.0.0"
        THEN [features |-> <<"A">>, bug_fixes |-> <<>>, breaking_changes |-> <<>>]
        ELSE [features |-> <<"A", "B">>, bug_fixes |-> <<"B">>,
              breaking_changes |-> <<"A">>]]

\* ids of the rows of deployments
DeploymentIds == {d.id : d \in Range(deployments)}

\* DatabaseManager._get_version_id: id of the version row of (app_id, version),
\* None when there is none
get_version_id(app_id, version) ==
    LET Is(v) == v.application_id = app_id /\ v.version = version
        i == First({k \in DOMAIN versions : Is(versions[k])})
    IN  IF i = 0 THEN None ELSE versions[i].id

\* the row of versions with this id
VersionRow(version_id) ==
    CHOOSE v \in Range(versions) : v.id = version_id

\* the row INSERT INTO versions stores for a Version; the rowid is assigned
\* by AUTOINCREMENT
NewVersionRow(v) ==
    [id |-> Len(versions) + 1, version |-> v.version,
     application_id |-> v.application_id, features |-> v.features,
     bug_fixes |-> v.bug_fixes, breaking_changes |-> v.breaking_changes]

\* UNIQUE(application_id, version) and the rows already stored
ViolatesUniqueVersion(v) == get_version_id(v.application_id, v.version) # None

create_application(app_id, app_type) ==
    /\ backend = "sqlite"
    /\ LET failed == [NoResult EXCEPT !.op = "create_application",
                                      !.error = TRUE, !.app = app_id]
       IN  IF app_type \notin ApplicationType \/ app_id \in applications
           THEN /\ result' = failed
                /\ UNCHANGED dbvars
           ELSE /\ applications' = applications \cup {app_id}
                /\ result' = [failed EXCEPT !.error = FALSE]
                /\ UNCHANGED <<versions, deployments, app_environment_status>>
    /\ UNCHANGED <<backend, othervars, memvars, application_components>>

create_version(application_id, version, changes) ==
    /\ backend = "sqlite"
    /\ LET new_version == VersionRecord(version, application_id, changes.features,
                                        changes.bug_fixes, changes.breaking_changes)
           failed == [NoResult EXCEPT !.op = "create_version", !.error = TRUE,
                                      !.app = application_id, !.version = version]
       IN  IF application_id \notin applications \/ ViolatesUniqueVersion(new_version)
           THEN /\ result' = failed
                /\ UNCHANGED dbvars
           ELSE /\ Len(versions) < MaxVersions
                /\ versions' = Append(versions, NewVersionRow(new_version))
                /\ result' = [failed EXCEPT !.error = FALSE]
                /\ UNCHANGED <<applications, deployments, app_environment_status>>
    /\ UNCHANGED <<backend, othervars, memvars, application_components>>

\* the row of app_environment_status a successful deployment writes
StatusRow(d) ==
    [application_id |-> d.application_id, environment |-> d.environment,
     current_version |-> d.version.version, current_deployment_id |-> d.id]

\* DatabaseManager._update_environment_status: INSERT OR REPLACE under
\* UNIQUE(application_id, environment)
update_environment_status(d) ==
    {r \in app_environment_status :
        ~(r.application_id = d.application_id /\ r.environment = d.environment)}
      \cup {StatusRow(d)}

\* the row INSERT INTO deployments stores for a Deployment
DeploymentRow(d, version_id) ==
    [id |-> d.id, application_id |-> d.application_id,
     environment |-> d.environment, version_id |-> version_id,
     status |-> d.status, deployed_at |-> d.deployed_at,
     started_at |-> d.started_at, completed_at |-> d.completed_at,
     rollback_from |-> d.rollback_from, notes |-> d.notes]

\* DatabaseManager.create_deployment(d): TRUE when it returns, FALSE when the
\* insert raises IntegrityError on the primary key.  The version row it
\* creates for an unknown version is committed before the insert.
DatabaseManager_create_deployment(d, returns) ==
    LET found == get_version_id(d.application_id, d.version.version)
        version_id == IF found = None THEN Len(versions) + 1 ELSE found
    IN  /\ found = None => Len(versions) < MaxVersions
        /\ versions' = IF found = None
                       THEN Append(versions, NewVersionRow(d.version))
                       ELSE versions
        /\ returns = (d.id \notin DeploymentIds)
        /\ deployments' = IF returns
                          THEN Append(deployments, DeploymentRow(d, version_id))
                          ELSE deployments
        /\ app_environment_status' =
              IF returns /\ d.status = "success"
              THEN update_environment_status(d)
              ELSE app_environment_status
        /\ UNCHANGED applications

\* position in versions of the first row with this version string, of any
\* application
AnyVersionIndex(application_id, version) ==
    LET Is(v) == v.version = version IN First({k \in DOMAIN versions : Is(versions[k])})

\* DatabaseManager.get_versions_by_application, then
\* next((v for v in versions if v.version == version), None): the position
\* in versions of that row, 0 when there is none
ApplicationVersionIndex(application_id, version) ==
    LET Is(v) == v.application_id = application_id /\ v.version = version
    IN  First({k \in DOMAIN versions : Is(versions[k])})

create_deployment(application_id, environment, version, notes, new_id, now) ==
    /\ backend = "sqlite"
    /\ LET i == ApplicationVersionIndex(application_id, version)
           failed == [NoResult EXCEPT !.op = "create_deployment", !.error = TRUE,
                                      !.app = application_id, !.env = environment,
                                      !.version = version]
       IN  IF \/ application_id \notin applications
              \/ environment \notin Environment
              \/ i = 0
           THEN /\ result' = failed
                /\ UNCHANGED dbvars
           ELSE \E returns \in BOOLEAN :
                /\ Len(deployments) < MaxLedger
                /\ DatabaseManager_create_deployment(
                      [id |-> new_id, application_id |-> application_id,
                       environment |-> environment,
                       version |-> [versions[i] EXCEPT !.id = None],
                       status |-> "pending", deployed_at |-> now,
                       started_at |-> None, completed_at |-> None,
                       rollback_from |-> None, notes |-> notes], returns)
                /\ result' = [failed EXCEPT !.error = ~returns, !.id = new_id,
                                            !.status = "pending"]
    /\ UNCHANGED <<backend, othervars, memvars, application_components>>

\* version_tools_new.compare_versions: the changelog it returns
compare_versions_new(application_id, from_version, to_version) ==
    /\ backend = "sqlite"
    /\ LET from == ApplicationVersionIndex(application_id, from_version)
           to == ApplicationVersionIndex(application_id, to_version)
           failed == [NoResult EXCEPT !.op = "compare_versions_new", !.error = TRUE,
                                      !.app = application_id,
                                      !.version = from_version,
                                      !.version2 = to_version]
       IN  result' =
             IF from = 0 \/ to = 0
             THEN failed
             ELSE [failed EXCEPT
                     !.error = FALSE,
                     !.new_features = Range(versions[to].features),
                     !.new_bug_fixes = Range(versions[to].bug_fixes),
                     !.new_breaking_changes = Range(versions[to].breaking_changes)]
    /\ UNCHANGED <<backend, othervars, memvars, dbvars, application_components>>

\* positions of the deployments of (application_id, environment)
KeyRows(application_id, environment) ==
    {i \in DOMAIN deployments :
        /\ deployments[i].application_id = application_id
        /\ deployments[i].environment = environment}

\* the rows that ROW_NUMBER() OVER (... ORDER BY deployed_at DESC) may number
\* 1 in a partition: SQL leaves the order of rows of equal deployed_at open
FirstRows(partition) ==
    {i \in partition :
        \A j \in partition : deployments[j].deployed_at <= deployments[i].deployed_at}

\* multi_app_dashboard.load_environment_overview: one row per application and
\* environment it has deployments in, a row of NULLs for an application
\* without deployments.  `id` is the deployment the row was read from.
load_environment_overview ==
    /\ backend = "sqlite"
    /\ LET keys == {<<deployments[i].application_id, deployments[i].environment>> :
                       i \in {j \in DOMAIN deployments :
                                 deployments[j].application_id \in applications}}
       IN  \E pick \in [keys -> DOMAIN deployments] :
            /\ \A k \in keys : pick[k] \in FirstRows(KeyRows(k[1], k[2]))
            /\ result' =
                 [NoResult EXCEPT
                    !.op = "load_environment_overview",
                    !.rows =
                       {[app_id |-> k[1], environment |-> k[2],
                         id |-> deployments[pick[k]].id,
                         current_version |->
                             VersionRow(deployments[pick[k]].version_id).version,
                         last_status |-> deployments[pick[k]].status,
                         last_deployment |-> deployments[pick[k]].deployed_at] :
                           k \in keys}
                       \cup {[app_id |-> a, environment |-> "", id |-> None,
                              current_version |-> "", last_status |-> "",
                              last_deployment |-> None] :
                                a \in {b \in applications :
                                         \A e \in Environment : <<b, e>> \notin keys}}]
    /\ UNCHANGED <<backend, othervars, memvars, dbvars, application_components>>

\* a direct call of DatabaseManager.create_deployment with a Deployment the
\* caller built
call_create_deployment(d) ==
    /\ backend = "sqlite"
    /\ Len(deployments) < MaxLedger
    /\ \E returns \in BOOLEAN :
          /\ DatabaseManager_create_deployment(d, returns)
          /\ result' = [NoResult EXCEPT !.op = "call_create_deployment",
                                        !.error = ~returns, !.id = d.id,
                                        !.app = d.application_id,
                                        !.env = d.environment,
                                        !.version = d.version.version,
                                        !.status = d.status]
    /\ UNCHANGED <<backend, othervars, memvars, application_components>>

\* deployment_tools_new.update_deployment_status: the status is validated as
\* given, the deployment is read, the new status, notes and times are set on
\* the object that was read, and nothing is written back
update_deployment_status_new(deployment_id, status, notes, now) ==
    /\ backend = "sqlite"
    /\ LET found == \E d \in Range(deployments) :
                        /\ d.id = deployment_id
                        /\ \E v \in Range(versions) : v.id = d.version_id
       IN  result' = [NoResult EXCEPT !.op = "update_deployment_status_new",
                                      !.error = ~(status \in DeploymentStatus /\ found),
                                      !.id = deployment_id, !.status = status,
                                      !.notes = notes]
    /\ UNCHANGED <<backend, othervars, memvars, dbvars, application_components>>

\* the deployment app_environment_status points to for (application_id,
\* environment), as _get_deployment_by_id reads it; the empty set when there
\* is no pointer row or no such deployment
PointedDeployments(application_id, environment) ==
    {d \in Range(deployments) :
        /\ \E r \in app_environment_status :
              /\ r.application_id = application_id /\ r.environment = environment
              /\ r.current_deployment_id = d.id
        /\ \E v \in Range(versions) : v.id = d.version_id}

\* the current_version column of the pointer row, "" when there is none
PointedVersion(application_id, environment) ==
    IF \E r \in app_environment_status :
          r.application_id = application_id /\ r.environment = environment
    THEN (CHOOSE r \in app_environment_status :
            r.application_id = application_id /\ r.environment = environment).current_version
    ELSE ""

\* DatabaseManager._get_active_incidents(app_id): the incidents of the
\* application that are open or in progress
get_active_incidents(app_id) ==
    {i \in incidents : i.application_id = app_id /\ i.status \in {"open", "in_progress"}}

\* row['health_status'] or 'unknown': _update_environment_status leaves the
\* column to its DEFAULT 'unknown' and nothing else writes it; without a
\* pointer row the LEFT JOIN yields NULL
health_status_of(app_id, environment) == "unknown"

\* the branch of the counting loop the application's row takes
CountedAs(app_id, environment) ==
    LET health_status == health_status_of(app_id, environment) IN
    IF health_status = "healthy" THEN "healthy"
    ELSE IF get_active_incidents(app_id) # {} \/ health_status \in {"unhealthy", "degraded"}
         THEN "issues"
         ELSE "none"

\* DatabaseManager.get_environment_overview: one row per application, its
\* current version and deployment read from app_environment_status
get_environment_overview(environment) ==
    /\ backend = "sqlite"
    /\ result' =
         [NoResult EXCEPT
            !.op = "get_environment_overview",
            !.env = environment,
            !.total = Cardinality({i \in DOMAIN deployments :
                                      /\ deployments[i].environment = environment
                                      /\ deployments[i].status = "pending"}),
            !.issues = Cardinality({a \in applications :
                                       CountedAs(a, environment) = "issues"}),
            !.rows =
               {[app_id |-> a, environment |-> environment,
                 health_status |-> health_status_of(a, environment),
                 counted |-> CountedAs(a, environment),
                 id |-> IF PointedDeployments(a, environment) = {} THEN None
                        ELSE (CHOOSE d \in PointedDeployments(a, environment) : TRUE).id,
                 current_version |-> PointedVersion(a, environment),
                 last_status |->
                     IF PointedDeployments(a, environment) = {} THEN ""
                     ELSE (CHOOSE d \in PointedDeployments(a, environment) : TRUE).status,
                 last_deployment |->
                     IF PointedDeployments(a, environment) = {} THEN None
                     ELSE (CHOOSE d \in PointedDeployments(a, environment) : TRUE).deployed_at] :
                   a \in applications}]
    /\ UNCHANGED <<backend, othervars, memvars, dbvars, application_components>>

\* DatabaseManager.reset_database: DELETE FROM every table
reset_database ==
    /\ backend = "sqlite"
    /\ applications' = {}
    /\ versions' = <<>>
    /\ deployments' = <<>>
    /\ app_environment_status' = {}
    /\ incidents' = {}
    /\ result' = [NoResult EXCEPT !.op = "reset_database"]
    /\ UNCHANGED <<backend, memvars, application_components, tools, handlers,
                   pc, local>>

SqliteInit ==
    /\ backend = "sqlite"
    /\ VERSIONS_DB = VersionStore({})
    /\ DEPLOYMENTS_DB = <<>>
    /\ EmptyDatabase
    /\ result = NoResult
    /\ Idle

----------------------------------------------------------------------------
(* Multi-organisation tools: multi_org_version_tools.py and                *)
(* multi_org_deployment_tools.py.  No tool writes organizations,           *)
(* environments or applications; the tools read them.                      *)

\* ids of the rows of organizations
organizations == {1, 2}

\* rows of environments
environments == {[id |-> 1, organization_id |-> 1], [id |-> 2, organization_id |-> 2]}

\* organization ids and environment ids a caller passes
OrganizationInputs == {1, 3}
EnvironmentIdInputs == {1, 2}

\* SELECT name FROM environments WHERE id = ? AND organization_id = ?
EnvironmentOfOrganization(environment_id, organization_id) ==
    \E e \in environments : e.id = environment_id /\ e.organization_id = organization_id

create_version_multi_org(application_id, version) ==
    /\ backend = "org"
    /\ LET failed == [NoResult EXCEPT !.op = "create_version_multi_org",
                                      !.error = TRUE, !.app = application_id,
                                      !.version = version]
       IN  IF \/ application_id \notin applications
              \/ get_version_id(application_id, version) # None
           THEN /\ result' = failed
                /\ UNCHANGED dbvars
           ELSE /\ Len(versions) < MaxVersions
                /\ versions' = Append(versions,
                                      [id |-> Len(versions) + 1,
                                       application_id |-> application_id,
                                       version |-> version])
                /\ result' = [failed EXCEPT !.error = FALSE]
                /\ UNCHANGED <<applications, deployments, app_environment_status>>
    /\ UNCHANGED <<backend, othervars, memvars, application_components>>

\* the rows SELECT id, application_id FROM versions WHERE version = ? yields;
\* fetchone() takes one of them, the statement has no ORDER BY
VersionsNamed(version) == {v \in Range(versions) : v.version = version}

register_deployment_multi_org(organization_id, environment_id, version, notes, new_id, now) ==
    /\ backend = "org"
    /\ LET failed == [NoResult EXCEPT !.op = "register_deployment_multi_org",
                                      !.error = TRUE,
                                      !.environment_id = environment_id,
                                      !.version = version]
       IN  IF \/ organization_id \notin organizations
              \/ ~EnvironmentOfOrganization(environment_id, organization_id)
              \/ VersionsNamed(version) = {}
           THEN /\ result' = failed
                /\ UNCHANGED dbvars
           ELSE \E version_result \in VersionsNamed(version) :
                /\ Len(deployments) < MaxLedger
                /\ deployments' =
                      Append(deployments,
                             [id |-> new_id, environment_id |-> environment_id,
                              version_id |-> version_result.id,
                              status |-> "success", deployed_at |-> now,
                              notes |-> notes])
                /\ result' = [failed EXCEPT !.error = FALSE, !.id = new_id,
                                            !.status = "success"]
                /\ UNCHANGED <<applications, versions, app_environment_status>>
    /\ UNCHANGED <<backend, othervars, memvars, application_components>>

\* positions of the deployments to environment_id of versions of application_id
\* (deployments JOIN versions JOIN applications WHERE d.environment_id = ?)
ApplicationRows(application_id, environment_id) ==
    {i \in DOMAIN deployments :
        /\ deployments[i].environment_id = environment_id
        /\ \E v \in Range(versions) :
              /\ v.id = deployments[i].version_id
              /\ v.application_id = application_id
              /\ application_id \in applications}

\* one row per application with deployments to the environment: the row
\* numbered 1 in PARTITION BY a.id ORDER BY d.deployed_at DESC.  `id` is the
\* deployment the row was read from.
get_latest_versions_by_environment(organization_id, environment_id) ==
    /\ backend = "org"
    /\ LET failed == [NoResult EXCEPT !.op = "get_latest_versions_by_environment",
                                      !.error = TRUE,
                                      !.environment_id = environment_id]
           apps == {a \in applications : ApplicationRows(a, environment_id) # {}}
       IN  IF ~(organization_id \in organizations
                  /\ EnvironmentOfOrganization(environment_id, organization_id))
           THEN result' = failed
           ELSE \E pick \in [apps -> DOMAIN deployments] :
                /\ \A a \in apps : pick[a] \in FirstRows(ApplicationRows(a, environment_id))
                /\ result' =
                     [failed EXCEPT
                        !.error = FALSE,
                        !.rows = {[app_id |-> a, environment |-> environment_id,
                                   id |-> deployments[pick[a]].id,
                                   current_version |->
                                       VersionRow(deployments[pick[a]].version_id).version,
                                   last_status |-> deployments[pick[a]].status,
                                   last_deployment |-> deployments[pick[a]].deployed_at] :
                                     a \in apps}]
    /\ UNCHANGED <<backend, othervars, memvars, dbvars, application_components>>

OrgInit ==
    /\ backend = "org"
    /\ VERSIONS_DB = VersionStore({})
    /\ DEPLOYMENTS_DB = <<>>
    /\ applications = AppIds
    /\ versions = <<>>
    /\ deployments = <<>>
    /\ app_environment_status = {}
    /\ application_components = {}
    /\ result = NoResult
    /\ Idle

----------------------------------------------------------------------------
(* Component-based dashboard tools: src/src/frontend/dashboard_tools.py on *)
(* the tables of scripts/generate_hierarchical_apps.py                     *)

\* component ids a caller passes
ComponentIds == {"c1", "c2"}

\* ','.join(list), as the list of its pieces
JoinWithComma(list) ==
    [i \in 1..(2 * Len(list) - 1) |-> IF i % 2 = 1 THEN list[(i + 1) \div 2] ELSE ","]

\* the row HierarchicalDatabaseManager.create_version inserts: the table has
\* an AUTOINCREMENT id and no uniqueness constraint
HierarchicalVersionRow(version_data) ==
    [id |-> Len(versions) + 1, version |-> version_data.version,
     component_id |-> version_data.component_id,
     features |-> JoinWithComma(version_data.features),
     bug_fixes |-> JoinWithComma(version_data.bug_fixes)]

DashboardTools_create_version(component_id, version, changes) ==
    /\ backend = "hier"
    /\ Len(versions) < MaxVersions
    /\ versions' = Append(versions,
                          HierarchicalVersionRow(
                              [version |-> version, component_id |-> component_id,
                               features |-> changes.features,
                               bug_fixes |-> changes.bug_fixes]))
    /\ result' = [NoResult EXCEPT !.op = "DashboardTools_create_version",
                                  !.app = component_id, !.version = version,
                                  !.id = Len(versions) + 1]
    /\ UNCHANGED <<backend, othervars, memvars, applications, application_components,
                 deployments, app_environment_status>>

\* HierarchicalDatabaseManager.update_version: UPDATE versions SET version,
\* branch, commit_hash, build_number, features, bug_fixes WHERE id = ?;
\* returns whether a row was updated
update_version(version_id, version_data) ==
    /\ backend = "hier"
    /\ versions' = [i \in DOMAIN versions |->
                      IF versions[i].id = version_id
                      THEN [versions[i] EXCEPT
                              !.version = version_data.version,
                              !.features = JoinWithComma(version_data.features),
                              !.bug_fixes = JoinWithComma(version_data.bug_fixes)]
                      ELSE versions[i]]
    /\ result' = [NoResult EXCEPT
                    !.op = "update_version", !.id = version_id,
                    !.version = version_data.version,
                    !.error = \A i \in DOMAIN versions : versions[i].id # version_id]
    /\ UNCHANGED <<backend, othervars, memvars, applications, application_components,
                   deployments, app_environment_status>>

\* HierarchicalDatabaseManager.create_deployment: a plain INSERT; the id is
\* the primary key, a second row with it raises IntegrityError
HierarchicalDatabaseManager_create_deployment(deployment_data) ==
    /\ backend = "hier"
    /\ LET failed == [NoResult EXCEPT
                        !.op = "HierarchicalDatabaseManager_create_deployment",
                        !.error = TRUE, !.id = deployment_data.id]
       IN  IF deployment_data.id \in DeploymentIds
           THEN /\ result' = failed
                /\ UNCHANGED deployments
           ELSE /\ Len(deployments) < MaxLedger
                /\ deployments' = Append(deployments, deployment_data)
                /\ result' = [failed EXCEPT !.error = FALSE]
    /\ UNCHANGED <<backend, othervars, memvars, applications, application_components,
                 versions, app_environment_status>>

\* FROM deployments d JOIN versions v ON d.version_id = v.id
\*   JOIN application_components ac ON d.component_id = ac.id
\*   JOIN applications a ON ac.application_id = a.id
JoinedDeployments ==
    {d \in Range(deployments) :
        /\ \E v \in Range(versions) : v.id = d.version_id
        /\ \E ac \in application_components :
              ac.id = d.component_id /\ ac.application_id \in applications}

\* the columns a summary row shows, with the id of the deployment it is
SummaryRow(d) ==
    [id |-> d.id, environment |-> d.environment, component_id |-> d.component_id,
     version |-> (CHOOSE v \in Range(versions) : v.id = d.version_id).version,
     status |-> d.status, deployed_at |-> d.deployed_at]

\* the successful deployments of d's component and environment
SuccessfulOfKey(d) ==
    {d2 \in Range(deployments) :
        /\ d2.component_id = d.component_id /\ d2.environment = d.environment
        /\ d2.status = "success"}

\* HierarchicalDatabaseManager.get_environment_summary: the joined rows with
\* d.id IN (SELECT MAX(d2.id) ... of the key's successful rows)
get_environment_summary ==
    /\ backend = "hier"
    /\ result' = [NoResult EXCEPT
                    !.op = "get_environment_summary",
                    !.rows = {SummaryRow(d) :
                                d \in {x \in JoinedDeployments :
                                         /\ x \in SuccessfulOfKey(x)
                                         /\ \A d2 \in SuccessfulOfKey(x) : d2.id <= x.id}}]
    /\ UNCHANGED <<backend, othervars, memvars, dbvars, application_components>>

\* enhanced_dashboard.get_environment_summary: the successful joined rows
\* whose deployed_at is the MAX(deployed_at) of the key's successful rows
enhanced_get_environment_summary ==
    /\ backend = "hier"
    /\ result' = [NoResult EXCEPT
                    !.op = "enhanced_get_environment_summary",
                    !.rows = {SummaryRow(d) :
                                d \in {x \in JoinedDeployments :
                                         /\ x.status = "success"
                                         /\ \A d2 \in SuccessfulOfKey(x) :
                                               d2.deployed_at <= x.deployed_at}}]
    /\ UNCHANGED <<backend, othervars, memvars, dbvars, application_components>>

\* the list update_deployment_status checks a status against
valid_statuses == {"pending", "in_progress", "success", "failed", "rollback"}

\* status not in valid_statuses is refused; otherwise the call reports
\* success and writes nothing
DashboardTools_update_deployment_status(deployment_id, status, notes) ==
    /\ backend = "hier"
    /\ result' = [NoResult EXCEPT !.op = "DashboardTools_update_deployment_status",
                                  !.error = (status \notin valid_statuses),
                                  !.id = deployment_id, !.status = status]
    /\ UNCHANGED <<backend, othervars, memvars, dbvars, application_components>>

\* multi_org_dashboard.create_application: INSERT INTO applications; the row
\* gets a key no stored application has
dashboard_create_application(new_id) ==
    /\ backend = "hier"
    /\ new_id \notin applications
    /\ applications' = applications \cup {new_id}
    /\ result' = [NoResult EXCEPT !.op = "dashboard_create_application",
                                  !.app = new_id]
    /\ UNCHANGED <<backend, othervars, memvars, versions, deployments,
                   app_environment_status, application_components>>

\* multi_org_dashboard.create_component: INSERT INTO application_components
\* with the app_id given; data/deployments.db is opened without
\* PRAGMA foreign_keys, so app_id is not looked up
create_component(app_id, new_id) ==
    /\ backend = "hier"
    /\ \A c \in application_components : c.id # new_id
    /\ application_components' =
          application_components \cup {[id |-> new_id, application_id |-> app_id]}
    /\ result' = [NoResult EXCEPT !.op = "create_component", !.app = app_id,
                                  !.version = new_id]
    /\ UNCHANGED <<backend, othervars, memvars, dbvars>>

\* SELECT COUNT(*) FROM application_components WHERE application_id = ?
ComponentCount(app_id) ==
    Cardinality({c \in application_components : c.application_id = app_id})

\* SELECT COUNT(*) FROM versions WHERE component_id = ?
VersionCount(component_id) ==
    Cardinality({i \in DOMAIN versions : versions[i].component_id = component_id})

\* multi_org_dashboard.delete_application: refused while the application has
\* components, "no encontrada" when no row was deleted
delete_application(app_id) ==
    /\ backend = "hier"
    /\ LET refused == ComponentCount(app_id) > 0 IN
          /\ applications' = IF refused THEN applications
                             ELSE applications \ {app_id}
          /\ result' = [NoResult EXCEPT
                          !.op = "delete_application", !.app = app_id,
                          !.error = refused \/ app_id \notin applications,
                          !.total = ComponentCount(app_id)]
    /\ UNCHANGED <<backend, othervars, memvars, versions, deployments,
                   app_environment_status, application_components>>

\* multi_org_dashboard.delete_component: refused while the component has
\* versions, "no encontrado" when no row was deleted
delete_component(component_id) ==
    /\ backend = "hier"
    /\ LET refused == VersionCount(component_id) > 0 IN
          /\ application_components' =
                IF refused THEN application_components
                ELSE {c \in application_components : c.id # component_id}
          /\ result' = [NoResult EXCEPT
                          !.op = "delete_component", !.version = component_id,
                          !.error = refused \/ \A c \in application_components :
                                                  c.id # component_id,
                          !.total = VersionCount(component_id)]
    /\ UNCHANGED <<backend, othervars, memvars, dbvars>>

HierInit ==
    /\ backend = "hier"
    /\ VERSIONS_DB = VersionStore({})
    /\ DEPLOYMENTS_DB = <<>>
    /\ EmptyDatabase
    /\ result = NoResult
    /\ Idle

----------------------------------------------------------------------------
(* ToolRegistry (src/src/tools/registry.py)                                *)

\* names a caller registers, unregisters or executes
ToolNames == {"calculator", "echo", "text_processor"}

\* descriptions a caller registers a tool with
Descriptions == {"d1", "d2"}

\* handlers a caller passes: two functions, and a value that is not callable
Handlers == {"h1", "h2"}

HandlerInputs == Handlers \cup {"not callable"}

\* callable(handler)
Callable(handler) == handler \in Handlers

\* dict.setdefault(k, v): f keeps the value it has for k
SetDefault(f, k, v) ==
    [n \in DOMAIN f \cup {k} |-> IF n \in DOMAIN f THEN f[n] ELSE v]

\* f[k] = v on a dict
Put(f, k, v) == [n \in DOMAIN f \cup {k} |-> IF n = k THEN v ELSE f[n]]

\* del f[k] on a dict
Del(f, k) == [n \in DOMAIN f \ {k} |-> f[n]]

RegistryInit ==
    /\ backend = "registry"
    /\ VERSIONS_DB = VersionStore({})
    /\ DEPLOYMENTS_DB = <<>>
    /\ EmptyDatabase
    /\ result = NoResult
    /\ Idle

\* ToolRegistry.register_tool: ToolSchema(...) raises when input_schema is not
\* a dict, a handler that is not callable is refused, otherwise both dicts
\* get the entry of this name
register_tool(name, description, schema_is_dict, handler) ==
    /\ backend = "registry"
    /\ LET raised == ~schema_is_dict \/ ~Callable(handler) IN
          /\ tools' = IF raised THEN tools ELSE Put(tools, name, description)
          /\ handlers' = IF raised THEN handlers ELSE Put(handlers, name, handler)
          /\ result' = [NoResult EXCEPT !.op = "register_tool", !.error = raised,
                                        !.app = name, !.notes = description,
                                        !.handler = handler]
    /\ UNCHANGED <<backend, memvars, dbvars, application_components,
                   incidents, pc, local>>

\* ToolRegistry.unregister_tool: True when the name was registered
unregister_tool(name) ==
    /\ backend = "registry"
    /\ tools' = IF name \in DOMAIN tools THEN Del(tools, name) ELSE tools
    /\ handlers' = IF name \in DOMAIN tools THEN Del(handlers, name) ELSE handlers
    /\ result' = [NoResult EXCEPT !.op = "unregister_tool", !.app = name,
                                  !.error = name \notin DOMAIN tools]
    /\ UNCHANGED <<backend, memvars, dbvars, application_components,
                   incidents, pc, local>>

\* ToolRegistry.list_tools: a Tool for each value of self.tools
list_tools ==
    /\ backend = "registry"
    /\ result' = [NoResult EXCEPT
                    !.op = "list_tools",
                    !.rows = {[name |-> n, description |-> tools[n]] : n \in DOMAIN tools}]
    /\ UNCHANGED <<backend, othervars, memvars, dbvars, application_components>>

\* ToolRegistry.get_tool_names and get_tools_count
get_tool_names ==
    /\ backend = "registry"
    /\ result' = [NoResult EXCEPT
                    !.op = "get_tool_names",
                    !.rows = {[name |-> n] : n \in DOMAIN tools},
                    !.total = Cardinality(DOMAIN tools)]
    /\ UNCHANGED <<backend, othervars, memvars, dbvars, application_components>>

\* ToolRegistry.execute_tool: "Tool not found" for a name not in self.tools,
\* otherwise the handler stored for the name is called
execute_tool(name) ==
    /\ backend = "registry"
    /\ result' = [NoResult EXCEPT
                    !.op = "execute_tool", !.app = name,
                    !.error = name \notin DOMAIN tools,
                    !.handler = IF name \in DOMAIN tools THEN handlers[name] ELSE ""]
    /\ UNCHANGED <<backend, othervars, memvars, dbvars, application_components>>

----------------------------------------------------------------------------
(* Callers running at the same time, each on its own sqlite3 connection:   *)
(* a statement that commits is one step                                    *)

\* DatabaseManager.create_deployment, first statement:
\* version_id = self._get_version_id(...)
create_deployment_get_version_id(p) ==
    /\ backend = "sqlite"
    /\ pc[p] = "get_version_id"
    /\ LET d == local[p].deployment
           found == get_version_id(d.application_id, d.version.version)
       IN  /\ local' = [local EXCEPT ![p].version_id = found]
           /\ pc' = [pc EXCEPT ![p] = IF found = None THEN "create_version"
                                      ELSE "insert"]
    /\ UNCHANGED <<backend, memvars, dbvars, application_components, result,
                   tools, handlers, incidents>>

\* version_id = self.create_version(deployment.version): the INSERT raises
\* IntegrityError under UNIQUE(application_id, version), and the exception
\* leaves create_deployment
create_deployment_create_version(p) ==
    /\ backend = "sqlite"
    /\ pc[p] = "create_version"
    /\ LET d == local[p].deployment IN
          IF ViolatesUniqueVersion(d.version)
          THEN /\ pc' = [pc EXCEPT ![p] = "raised"]
               /\ UNCHANGED <<versions, local>>
          ELSE /\ versions' = Append(versions, NewVersionRow(d.version))
               /\ local' = [local EXCEPT ![p].version_id = Len(versions) + 1]
               /\ pc' = [pc EXCEPT ![p] = "insert"]
    /\ UNCHANGED <<backend, memvars, applications, deployments,
                   app_environment_status, application_components, result,
                   tools, handlers, incidents>>

\* INSERT INTO deployments ... ; conn.commit()
create_deployment_insert(p) ==
    /\ backend = "sqlite"
    /\ pc[p] = "insert"
    /\ LET d == local[p].deployment IN
          IF d.id \in DeploymentIds
          THEN /\ pc' = [pc EXCEPT ![p] = "raised"]
               /\ UNCHANGED deployments
          ELSE /\ deployments' = Append(deployments,
                                        DeploymentRow(d, local[p].version_id))
               /\ pc' = [pc EXCEPT ![p] = IF d.status = "success"
                                          THEN "update_environment_status"
                                          ELSE "returned"]
    /\ UNCHANGED <<backend, memvars, applications, versions,
                   app_environment_status, application_components, result,
                   tools, handlers, incidents, local>>

\* if deployment.status == DeploymentStatus.SUCCESS:
\*     self._update_environment_status(deployment)
create_deployment_update_environment_status(p) ==
    /\ backend = "sqlite"
    /\ pc[p] = "update_environment_status"
    /\ app_environment_status' = update_environment_status(local[p].deployment)
    /\ pc' = [pc EXCEPT ![p] = "returned"]
    /\ UNCHANGED <<backend, memvars, applications, versions, deployments,
                   application_components, result, tools, handlers, incidents,
                   local>>

\* multi_org_dashboard.delete_component, first statement:
\* SELECT COUNT(*) FROM versions WHERE component_id = ?
delete_component_count(p) ==
    /\ backend = "hier"
    /\ pc[p] = "count"
    /\ local' = [local EXCEPT ![p].count = VersionCount(local[p].component_id)]
    /\ pc' = [pc EXCEPT ![p] = "delete"]
    /\ UNCHANGED <<backend, memvars, dbvars, application_components, result,
                   tools, handlers, incidents>>

\* the rest of delete_component: refused when the count it read is positive,
\* otherwise DELETE FROM application_components WHERE id = ? and commit
delete_component_delete(p) ==
    /\ backend = "hier"
    /\ pc[p] = "delete"
    /\ application_components' =
          IF local[p].count > 0 THEN application_components
          ELSE {c \in application_components : c.id # local[p].component_id}
    /\ pc' = [pc EXCEPT ![p] = IF local[p].count > 0 THEN "refused"
                               ELSE "returned"]
    /\ UNCHANGED <<backend, memvars, dbvars, result, tools, handlers, incidents,
                   local>>

----------------------------------------------------------------------------
(* Specifications                                                          *)

Init == MemoryInit \/ SqliteInit \/ OrgInit \/ HierInit

Next ==
    \/ \E e \in EnvironmentInputs, v \in VersionStrings : create_sample_version(e, v)
    \/ \E e \in EnvironmentInputs, v \in VersionStrings, i \in Ids, t \in Times :
            register_deployment(e, v, "", i, t)
    \/ \E e \in EnvironmentInputs : get_environment_status(e)
    \/ \E e \in EnvironmentInputs, v1, v2 \in VersionStrings : compare_versions(e, v1, v2)
    \/ \E a \in AppIds, t \in {"backend", "desktop"} : create_application(a, t)
    \/ \E a \in AppIds, v \in VersionStrings : create_version(a, v, ChangeInputs[v])
    \/ \E a \in AppIds, e \in {"dev", "qa"}, v \in VersionStrings,
          i \in Ids \ DeploymentIds, t \in Times : create_deployment(a, e, v, "", i, t)
    \/ \E a \in AppIds, v1, v2 \in VersionStrings : compare_versions_new(a, v1, v2)
    \/ load_environment_overview
    \/ \E a \in AppIds \cup {"app3"}, v \in VersionStrings : create_version_multi_org(a, v)
    \/ \E o \in OrganizationInputs, e \in EnvironmentIdInputs, v \in VersionStrings,
          i \in Ids \ DeploymentIds, t \in Times :
            register_deployment_multi_org(o, e, v, "", i, t)
    \/ \E o \in OrganizationInputs, e \in EnvironmentIdInputs :
            get_latest_versions_by_environment(o, e)
    \/ \E c \in ComponentIds, v \in VersionStrings :
            DashboardTools_create_version(c, v, ChangeInputs[v])
    \/ \E i \in 1..MaxVersions, v \in VersionStrings :
            update_version(i, [version |-> v, features |-> ChangeInputs[v].features,
                               bug_fixes |-> ChangeInputs[v].bug_fixes])
    \/ \E a \in AppIds : dashboard_create_application(a)
    \/ \E a \in AppIds, c \in ComponentIds : create_component(a, c)
    \/ \E a \in AppIds : delete_application(a)
    \/ \E c \in ComponentIds : delete_component(c)

Spec == Init /\ [][Next]_vars

\* The status updates, on ledgers of deployments in progress
UpdateLedgers ==
    {s \in SeqsBetween({DeploymentRecord(i, "dev", "1.0.0", "in_progress", 1, 1, <<>>) :
                           i \in Ids}, 0, MaxLedger) :
        \A i, j \in DOMAIN s : i # j => s[i].id # s[j].id}

\* data/deployments.db holding the application app1 and nothing else
StoreInit ==
    /\ backend = "sqlite"
    /\ VERSIONS_DB = VersionStore({})
    /\ DEPLOYMENTS_DB = <<>>
    /\ applications = {"app1"}
    /\ versions = <<>>
    /\ deployments = <<>>
    /\ app_environment_status = {}
    /\ application_components = {}
    /\ result = NoResult
    /\ Idle

UpdateInit ==
    \/ /\ backend = "memory"
       /\ VERSIONS_DB = VersionStore({"dev"})
       /\ DEPLOYMENTS_DB \in UpdateLedgers
       /\ EmptyDatabase
       /\ result = NoResult
       /\ Idle
    \/ HierInit
    \/ StoreInit

\* Deployment objects a caller of DatabaseManager.create_deployment passes
DeploymentObjects ==
    {[id |-> i, application_id |-> "app1", environment |-> "dev",
      version |-> [VersionRecord(v, "app1", ChangeInputs[v].features,
                                 ChangeInputs[v].bug_fixes,
                                 ChangeInputs[v].breaking_changes) EXCEPT !.version = v],
      status |-> st, deployed_at |-> t, started_at |-> None,
      completed_at |-> None, rollback_from |-> None, notes |-> ""] :
        i \in Ids, v \in VersionStrings, st \in {"pending", "success"}, t \in Times}

\* rows a caller of HierarchicalDatabaseManager.create_deployment passes
HierarchicalDeploymentData ==
    [id : Ids, component_id : {"c1"}, version_id : {1}, environment : {"dev"},
     status : {"pending", "success"}, deployed_at : Times, notes : {""}]

UpdateNext ==
    \/ \E i \in Ids \cup {MaxLedger + 1}, st \in StatusInputs, n \in NoteInputs,
          t \in Times : update_deployment_status(i, st, n, t)
    \/ \E d \in HierarchicalDeploymentData :
            HierarchicalDatabaseManager_create_deployment(d)
    \/ \E i \in Ids \cup {MaxLedger + 1}, st \in StatusInputs, n \in NoteInputs :
            DashboardTools_update_deployment_status(i, st, n)
    \/ \E d \in DeploymentObjects : call_create_deployment(d)
    \/ \E i \in Ids \cup {MaxLedger + 1}, st \in {"success", "in_progress", "done"},
          n \in NoteInputs : update_deployment_status_new(i, st, n, 1)
    \/ \E e \in {"dev", "pre"} : get_environment_overview(e)
    \/ reset_database

SpecUpdate == UpdateInit /\ [][UpdateNext]_vars

\* Two callers of DatabaseManager.create_deployment for (app1, dev), with
\* distinct deployment ids; or a caller of delete_component while versions
\* are created
ConcurrentInit ==
    \/ /\ backend = "sqlite"
       /\ VERSIONS_DB = VersionStore({})
       /\ DEPLOYMENTS_DB = <<>>
       /\ applications = {"app1"}
       /\ versions \in {<<>>, <<[id |-> 1, version |-> "1.0.0",
                                  application_id |-> "app1",
                                  features |-> ChangeInputs["1.0.0"].features,
                                  bug_fixes |-> ChangeInputs["1.0.0"].bug_fixes,
                                  breaking_changes |->
                                      ChangeInputs["1.0.0"].breaking_changes]>>}
       /\ deployments = <<>>
       /\ app_environment_status = {}
       /\ application_components = {}
       /\ result = NoResult
       /\ tools = [n \in {} |-> ""]
       /\ handlers = [n \in {} |-> ""]
       /\ incidents = {}
       /\ pc = [p \in Procs |-> "get_version_id"]
       /\ \E d1, d2 \in DeploymentObjects :
             /\ d1.id = 1 /\ d2.id = 2
             /\ local = [p \in Procs |->
                           [deployment |-> IF p = 1 THEN d1 ELSE d2,
                            version_id |-> None]]
    \/ /\ backend = "hier"
       /\ VERSIONS_DB = VersionStore({})
       /\ DEPLOYMENTS_DB = <<>>
       /\ applications = {"app1"}
       /\ versions = <<>>
       /\ deployments = <<>>
       /\ app_environment_status = {}
       /\ application_components =
             {[id |-> c, application_id |-> "app1"] : c \in ComponentIds}
       /\ result = NoResult
       /\ tools = [n \in {} |-> ""]
       /\ handlers = [n \in {} |-> ""]
       /\ incidents = {}
       /\ \E c \in ComponentIds :
             /\ pc = [p \in Procs |-> IF p = 1 THEN "count" ELSE "idle"]
             /\ local = [p \in Procs |-> [component_id |-> c, count |-> 0]]

ConcurrentNext ==
    \/ \E p \in Procs : create_deployment_get_version_id(p)
    \/ \E p \in Procs : create_deployment_create_version(p)
    \/ \E p \in Procs : create_deployment_insert(p)
    \/ \E p \in Procs : create_deployment_update_environment_status(p)
    \/ \E p \in Procs : delete_component_count(p)
    \/ \E p \in Procs : delete_component_delete(p)
    \/ \E c \in ComponentIds, v \in VersionStrings :
            DashboardTools_create_version(c, v, ChangeInputs[v])

SpecConcurrent == ConcurrentInit /\ [][ConcurrentNext]_vars

\* The summaries, on a database with one application, its two components and
\* two versions of component c1
SummaryInit ==
    /\ backend = "hier"
    /\ VERSIONS_DB = VersionStore({})
    /\ DEPLOYMENTS_DB = <<>>
    /\ applications = {"app1"}
    /\ application_components =
          {[id |-> c, application_id |-> "app1"] : c \in ComponentIds}
    /\ versions = <<[id |-> 1, version |-> "1.0.0", component_id |-> "c1",
                     features |-> JoinWithComma(ChangeInputs["1.0.0"].features),
                     bug_fixes |-> JoinWithComma(ChangeInputs["1.0.0"].bug_fixes)],
                    [id |-> 2, version |-> "1.1.0", component_id |-> "c1",
                     features |-> JoinWithComma(ChangeInputs["1.1.0"].features),
                     bug_fixes |-> JoinWithComma(ChangeInputs["1.1.0"].bug_fixes)]>>
    /\ deployments = <<>>
    /\ app_environment_status = {}
    /\ result = NoResult
    /\ Idle

\* rows a caller of HierarchicalDatabaseManager.create_deployment passes for
\* component c1 in dev
SummaryDeploymentData ==
    [id : Ids, component_id : {"c1"}, version_id : {1, 2}, environment : {"dev"},
     status : {"success", "failed"}, deployed_at : Times, notes : {""}]

SummaryNext ==
    \/ \E d \in SummaryDeploymentData :
            HierarchicalDatabaseManager_create_deployment(d)
    \/ get_environment_summary
    \/ enhanced_get_environment_summary

SpecSummary == SummaryInit /\ [][SummaryNext]_vars

\* Ledgers of successful deployments of two applications' versions, each
\* Deployment carrying the application_id its class requires
KeyLedgers ==
    {s \in SeqsBetween([id : Ids, application_id : AppIds,
                        environment : {"dev", "prod"}, version : {"1.0.0"},
                        status : {"success"}, deployed_at : Times,
                        started_at : {None}, completed_at : {None},
                        notes : {<<>>}], 0, MaxLedger) :
        \A i, j \in DOMAIN s : i # j => s[i].id # s[j].id}

KeysInit ==
    /\ backend = "memory"
    /\ VERSIONS_DB = VersionStore({"dev", "prod"})
    /\ DEPLOYMENTS_DB \in KeyLedgers
    /\ EmptyDatabase
    /\ result = NoResult
    /\ Idle

\* integers a caller passes as limit
LimitInputs == {-1, 0, 1, 5}

\* s[:limit] of Python: the first limit elements, or, for a negative limit,
\* all but the last -limit elements
SliceTo(s, limit) ==
    IF limit >= 0
    THEN SubSeq(s, 1, IF limit < Len(s) THEN limit ELSE Len(s))
    ELSE SubSeq(s, 1, IF Len(s) + limit > 0 THEN Len(s) + limit ELSE 0)

\* environment "" stands for the default None: no filter
get_deployment_history(environment, limit) ==
    /\ backend = "memory"
    /\ LET env == Lower(environment)
           called == [NoResult EXCEPT !.op = "get_deployment_history",
                                      !.env = environment, !.limit = limit]
       IN  result' =
             IF environment # "" /\ env \notin Environment
             THEN [called EXCEPT !.error = TRUE]
             ELSE LET filtered == IF environment # "" THEN EnvDeployments(env)
                                  ELSE DEPLOYMENTS_DB
                      deployments_sorted == SortedByDeployedAtDesc(filtered)
                      deployments_limited == SliceTo(deployments_sorted, limit)
                  IN  [called EXCEPT
                         !.total = Len(deployments_sorted),
                         !.history = [i \in DOMAIN deployments_limited |->
                                        [id |-> deployments_limited[i].id,
                                         deployed_at |-> deployments_limited[i].deployed_at]]]
    /\ UNCHANGED <<backend, othervars, memvars, dbvars, application_components>>

KeysNext ==
    \/ \E e \in Environment : get_environment_status(e)
    \/ \E e \in {"", "dev", "PROD", "qa"}, limit \in LimitInputs :
            get_deployment_history(e, limit)

SpecKeys == KeysInit /\ [][KeysNext]_vars

\* rows of the incidents table about deployment 1 of app1
IncidentRows ==
    [id : 1..2, deployment_id : {1}, application_id : {"app1"},
     status : {"open", "resolved"}]

\* data/deployments.db with two applications, app1 deployed once to dev,
\* and incidents reported on that deployment
OverviewInit ==
    /\ backend = "sqlite"
    /\ VERSIONS_DB = VersionStore({})
    /\ DEPLOYMENTS_DB = <<>>
    /\ applications = AppIds
    /\ versions = <<[id |-> 1, version |-> "1.0.0", application_id |-> "app1",
                     features |-> ChangeInputs["1.0.0"].features,
                     bug_fixes |-> ChangeInputs["1.0.0"].bug_fixes,
                     breaking_changes |-> ChangeInputs["1.0.0"].breaking_changes]>>
    /\ deployments = <<[id |-> 1, application_id |-> "app1", environment |-> "dev",
                        version_id |-> 1, status |-> "success", deployed_at |-> 1,
                        started_at |-> None, completed_at |-> None,
                        rollback_from |-> None, notes |-> ""]>>
    /\ app_environment_status =
          {[application_id |-> "app1", environment |-> "dev",
            current_version |-> "1.0.0", current_deployment_id |-> 1]}
    /\ application_components = {}
    /\ result = NoResult
    /\ tools = [n \in {} |-> ""]
    /\ handlers = [n \in {} |-> ""]
    /\ incidents \in {S \in SUBSET IncidentRows :
                         \A i, j \in S : i.id = j.id => i = j}
    /\ pc = [p \in Procs |-> "idle"]
    /\ local = [p \in Procs |-> None]

OverviewNext ==
    \/ \E d \in DeploymentObjects : call_create_deployment(d)
    \/ \E e \in {"dev", "pre"} : get_environment_overview(e)

SpecOverview == OverviewInit /\ [][OverviewNext]_vars

\* The registry of tools
RegistryNext ==
    \/ \E n \in ToolNames \ {"text_processor"}, d \in Descriptions,
          ok \in BOOLEAN, h \in HandlerInputs : register_tool(n, d, ok, h)
    \/ \E n \in ToolNames : unregister_tool(n)
    \/ list_tools
    \/ get_tool_names
    \/ \E n \in ToolNames : execute_tool(n)

SpecRegistry == RegistryInit /\ [][RegistryNext]_vars

----------------------------------------------------------------------------
(* Properties                                                              *)

\* C1: the current deployment reported for a key is a row of that key with
\* the maximum deployed_at among all rows of the key, whatever the order the
\* rows were appended in: get_environment_status.current_deployment for an
\* environment, each row of load_environment_overview for an application and
\* environment, each row of get_latest_versions_by_environment for an
\* application in the environment; a key with rows has a current deployment.
C1_LatestWins ==
    /\ (result.op = "get_environment_status" /\ ~result.error) =>
          LET key == {d \in Range(DEPLOYMENTS_DB) : d.environment = result.env}
          IN  IF key = {} THEN result.current = None
              ELSE \E d \in key : /\ d.id = result.current
                                  /\ \A e \in key : e.deployed_at <= d.deployed_at
    /\ result.op = "load_environment_overview" =>
          /\ \A r \in result.rows : r.id # None =>
                \E d \in Range(deployments) :
                    /\ d.id = r.id
                    /\ d.application_id = r.app_id /\ d.environment = r.environment
                    /\ d.deployed_at = r.last_deployment
                    /\ \A e \in Range(deployments) :
                          e.application_id = r.app_id /\ e.environment = r.environment
                            => e.deployed_at <= d.deployed_at
          /\ \A d \in Range(deployments) :
                \E r \in result.rows :
                    r.app_id = d.application_id /\ r.environment = d.environment
    /\ (result.op = "get_latest_versions_by_environment" /\ ~result.error) =>
          LET App(d) == (CHOOSE v \in Range(versions) : v.id = d.version_id).application_id
              env == {d \in Range(deployments) : d.environment_id = result.environment_id}
          IN  /\ \A r \in result.rows :
                    \E d \in env :
                        /\ d.id = r.id /\ App(d) = r.app_id
                        /\ d.deployed_at = r.last_deployment
                        /\ \A e \in env : App(e) = r.app_id => e.deployed_at <= d.deployed_at
              /\ \A d \in env : \E r \in result.rows : r.app_id = App(d)

\* C1 witness: the environment's older row was appended last, and the row
\* appended first is reported as current
C1_OutOfOrderAppend ==
    /\ result.op = "get_environment_status" /\ ~result.error
    /\ Len(EnvDeployments(result.env)) = 2
    /\ EnvDeployments(result.env)[1].deployed_at > EnvDeployments(result.env)[2].deployed_at
    /\ result.current = EnvDeployments(result.env)[1].id

\* C2: when several rows of a key share the maximum deployed_at, the current
\* deployment reported is the one of them with the greatest id, whatever the
\* order they were appended in (get_environment_status and
\* get_latest_versions_by_environment).
C2_GreatestIdBreaksTies ==
    /\ (result.op = "get_environment_status" /\ ~result.error
          /\ result.current # None) =>
          LET key == {d \in Range(DEPLOYMENTS_DB) : d.environment = result.env}
              tied == {d \in key : \A e \in key : e.deployed_at <= d.deployed_at}
          IN  \A d \in tied : d.id <= result.current
    /\ (result.op = "get_latest_versions_by_environment" /\ ~result.error) =>
          LET App(d) == (CHOOSE v \in Range(versions) : v.id = d.version_id).application_id
              env == {d \in Range(deployments) : d.environment_id = result.environment_id}
          IN  \A r \in result.rows :
                  \A d \in env :
                      (App(d) = r.app_id /\ d.deployed_at = r.last_deployment)
                        => d.id <= r.id

\* C3: get_environment_status for a valid environment without deployments
\* returns a normal result whose current deployment is None, not an error.
C3_NoDeploymentIsNotAnError ==
    (/\ result.op = "get_environment_status"
     /\ Lower(result.env) \in Environment
     /\ \A d \in Range(DEPLOYMENTS_DB) : d.environment # Lower(result.env))
      => ~result.error /\ result.current = None

\* C3 witness: the ledger has deployments, none of them in the environment
\* asked for, and the call returned
C3_EmptyEnvironmentAsked ==
    /\ result.op = "get_environment_status"
    /\ result.env = "pre"
    /\ DEPLOYMENTS_DB # <<>>
    /\ ~result.error /\ result.current = None /\ result.total = 0

\* C4: a call that creates a deployment of a version the stated application
\* (create_deployment), the target environment (register_deployment) or the
\* versions table (register_deployment of the multi-organisation tools) does
\* not hold is rejected and leaves the deployments ledger as it was.
C4_ForeignVersionRejected ==
    [][/\ (/\ result'.op = "create_deployment"
           /\ ~\E v \in Range(versions) :
                 v.application_id = result'.app /\ v.version = result'.version)
          => result'.error /\ deployments' = deployments
       /\ (/\ result'.op = "register_deployment"
           /\ Lower(result'.env) \in Environment
           /\ ~\E v \in Range(VERSIONS_DB[Lower(result'.env)]) :
                 v.version = result'.version)
          => result'.error /\ DEPLOYMENTS_DB' = DEPLOYMENTS_DB
       /\ (/\ result'.op = "register_deployment_multi_org"
           /\ ~\E v \in Range(versions) : v.version = result'.version)
          => result'.error /\ deployments' = deployments]_vars

\* C4 witness: create_deployment was refused for an existing application and
\* a version string that only the other application has; the ledger holds
\* the deployment made before
C4_OtherApplicationsVersion ==
    /\ result.op = "create_deployment" /\ result.error
    /\ result.app \in applications
    /\ result.env \in Environment
    /\ \E v \in Range(versions) :
          v.version = result.version /\ v.application_id # result.app
    /\ ~\E v \in Range(versions) :
          v.version = result.version /\ v.application_id = result.app
    /\ Len(deployments) = 1

C6_NoDuplicateVersions ==
    /\ \A e \in Environment :
          \A i, j \in DOMAIN VERSIONS_DB[e] :
              i # j => VERSIONS_DB[e][i].version # VERSIONS_DB[e][j].version
    /\ backend = "sqlite" =>
          \A i, j \in DOMAIN versions :
              i # j => \/ versions[i].application_id # versions[j].application_id
                       \/ versions[i].version # versions[j].version
    /\ backend = "hier" =>
          \A i, j \in DOMAIN versions :
              i # j => \/ versions[i].component_id # versions[j].component_id
                       \/ versions[i].version # versions[j].version

\* C7: compare_versions of two stored versions returns, as new features, bug
\* fixes and breaking changes, the entries of `to` that are not entries of
\* `from` (nothing when a version is compared with itself), in version_tools
\* and in version_tools_new.
C7_ChangelogIsSetDifference ==
    /\ (/\ result.op = "compare_versions"
        /\ Lower(result.env) \in Environment
        /\ \E v1, v2 \in Range(VERSIONS_DB[Lower(result.env)]) :
              v1.version = result.version /\ v2.version = result.version2) =>
          \E v1, v2 \in Range(VERSIONS_DB[Lower(result.env)]) :
              /\ v1.version = result.version /\ v2.version = result.version2
              /\ ~result.error
              /\ result.new_features = Range(v2.features) \ Range(v1.features)
              /\ result.new_bug_fixes = Range(v2.bug_fixes) \ Range(v1.bug_fixes)
              /\ result.new_breaking_changes =
                    Range(v2.breaking_changes) \ Range(v1.breaking_changes)
    /\ (/\ result.op = "compare_versions_new"
        /\ \E v1, v2 \in Range(versions) :
              /\ v1.application_id = result.app /\ v1.version = result.version
              /\ v2.application_id = result.app /\ v2.version = result.version2) =>
          \E v1, v2 \in Range(versions) :
              /\ v1.application_id = result.app /\ v1.version = result.version
              /\ v2.application_id = result.app /\ v2.version = result.version2
              /\ ~result.error
              /\ result.new_features = Range(v2.features) \ Range(v1.features)
              /\ result.new_bug_fixes = Range(v2.bug_fixes) \ Range(v1.bug_fixes)
              /\ result.new_breaking_changes =
                    Range(v2.breaking_changes) \ Range(v1.breaking_changes)

\* C8: the health label get_environment_status reports for an environment
\* with deployments is decided by the share of its deployments that
\* succeeded: healthy iff that share is at least 80%, warning iff it is at
\* least 60% and below 80%, critical iff it is below 60%.
C8_HealthThresholds ==
    (result.op = "get_environment_status" /\ ~result.error) =>
        LET key == {i \in DOMAIN DEPLOYMENTS_DB :
                       DEPLOYMENTS_DB[i].environment = result.env}
            s == Cardinality({i \in key : DEPLOYMENTS_DB[i].status = "success"})
            t == Cardinality(key)
        IN  t > 0 =>
              /\ result.successful = s /\ result.total = t
              /\ result.health \in {"healthy", "warning", "critical"}
              /\ result.health = "healthy" <=> 100 * s >= 80 * t
              /\ result.health = "warning" <=> (100 * s >= 60 * t /\ 100 * s < 80 * t)
              /\ result.health = "critical" <=> 100 * s < 60 * t

\* C8 witness: four of five deployments succeeded, exactly 80%, reported
\* healthy
C8_ExactlyEightyPercent ==
    /\ result.op = "get_environment_status" /\ ~result.error
    /\ result.total = 5 /\ result.successful = 4
    /\ result.rate = 8000
    /\ result.health = "healthy"

\* C9: for an environment without deployments get_environment_status reports
\* the health label unknown.
C9_NoDeploymentsIsUnknown ==
    (/\ result.op = "get_environment_status" /\ ~result.error
     /\ \A d \in Range(DEPLOYMENTS_DB) : d.environment # result.env)
      => result.health = "unknown"

C12_OverviewRecomputableFromLedger ==
    result.op = "get_environment_overview" =>
        \A r \in result.rows :
            LET key == {d \in Range(deployments) :
                           d.application_id = r.app_id /\ d.environment = r.environment}
                successful == {d \in key : d.status = "success"}
                latest(S) == {d.id : d \in {x \in S : \A y \in S : y.deployed_at <= x.deployed_at}}
            IN  IF successful = {}
                THEN r.id = None
                ELSE r.id \in latest(key) \cup latest(successful)

\* C13: a step of update_deployment_status (deployment_tools,
\* deployment_tools_new or DashboardTools) leaves every deployment other than
\* its target unchanged in all fields, keeps the target's id, environment,
\* version reference and deployed_at, and adds or removes no row.
C13_UpdateChangesOnlyStatusNotesTimes ==
    [][result'.op \in {"update_deployment_status", "update_deployment_status_new",
                       "DashboardTools_update_deployment_status"}
         => /\ DOMAIN DEPLOYMENTS_DB' = DOMAIN DEPLOYMENTS_DB
            /\ \A i \in DOMAIN DEPLOYMENTS_DB :
                  IF DEPLOYMENTS_DB[i].id # result'.id
                  THEN DEPLOYMENTS_DB'[i] = DEPLOYMENTS_DB[i]
                  ELSE /\ DEPLOYMENTS_DB'[i].id = DEPLOYMENTS_DB[i].id
                       /\ DEPLOYMENTS_DB'[i].environment = DEPLOYMENTS_DB[i].environment
                       /\ DEPLOYMENTS_DB'[i].version = DEPLOYMENTS_DB[i].version
                       /\ DEPLOYMENTS_DB'[i].deployed_at = DEPLOYMENTS_DB[i].deployed_at
            /\ DOMAIN deployments' = DOMAIN deployments
            /\ \A i \in DOMAIN deployments :
                  IF deployments[i].id # result'.id
                  THEN deployments'[i] = deployments[i]
                  ELSE /\ deployments'[i].id = deployments[i].id
                       /\ deployments'[i].environment = deployments[i].environment
                       /\ deployments'[i].version_id = deployments[i].version_id
                       /\ deployments'[i].deployed_at = deployments[i].deployed_at
            /\ VERSIONS_DB' = VERSIONS_DB
            /\ versions' = versions]_vars

\* an update that succeeded on the first of two deployments: the target is
\* completed, the other one is still in progress
C13_FirstOfTwoUpdated ==
    /\ result.op = "update_deployment_status"
    /\ ~result.error
    /\ Len(DEPLOYMENTS_DB) = 2
    /\ DEPLOYMENTS_DB[1].id = result.id
    /\ DEPLOYMENTS_DB[1].status = "failed"
    /\ DEPLOYMENTS_DB[1].completed_at # None
    /\ DEPLOYMENTS_DB[2].status = "in_progress"

\* C14: the ledger is append-only: every deployment id stored before a step,
\* in DEPLOYMENTS_DB or in the deployments table, is stored at the same
\* position after it.
C14_LedgerOnlyGrows ==
    [][/\ \A i \in DOMAIN DEPLOYMENTS_DB :
             i \in DOMAIN DEPLOYMENTS_DB' /\ DEPLOYMENTS_DB'[i].id = DEPLOYMENTS_DB[i].id
       /\ \A i \in DOMAIN deployments :
             i \in DOMAIN deployments' /\ deployments'[i].id = deployments[i].id]_vars

\* C15: status updates are durable: once update_deployment_status (of
\* deployment_tools, deployment_tools_new or DashboardTools) has reported
\* success for deployment d and status s, the stored deployment d has status s.
C15_SuccessfulUpdateIsStored ==
    (/\ result.op \in {"update_deployment_status", "update_deployment_status_new",
                       "DashboardTools_update_deployment_status"}
     /\ ~result.error)
        => /\ \A d \in Range(DEPLOYMENTS_DB) :
                 d.id = result.id => d.status = Lower(result.status)
           /\ \A d \in Range(deployments) :
                 d.id = result.id => d.status = Lower(result.status)

\* C16: a deployment just created by register_deployment (deployment_tools),
\* create_deployment (deployment_tools_new) or register_deployment
\* (multi_org_deployment_tools), none of which takes a status, is stored with
\* status pending or in_progress.
C16_CreatedNonTerminal ==
    (/\ result.op \in {"register_deployment", "create_deployment",
                       "register_deployment_multi_org"}
     /\ ~result.error)
        => /\ result.status \in {"pending", "in_progress"}
           /\ \A d \in Range(DEPLOYMENTS_DB) \cup Range(deployments) :
                 d.id = result.id => d.status \in {"pending", "in_progress"}

\* C17: a call of DatabaseManager.create_deployment never adds a row to the
\* versions table, refuses a deployment whose version is not stored for its
\* application, and leaves the versions and deployments tables as they were
\* when it fails.
C17_NoVersionCreatedByDeployment ==
    [][result'.op = "call_create_deployment"
         => /\ versions' = versions
            /\ get_version_id(result'.app, result'.version) = None => result'.error
            /\ result'.error => deployments' = deployments]_vars

\* C18: after any sequential run of the dashboard's create and delete
\* operations every version's component and every component's application is
\* stored (the delete guards refuse to remove a referenced row).
C18_ReferencesResolve ==
    backend = "hier" =>
        /\ \A i \in DOMAIN versions :
              \E c \in application_components : c.id = versions[i].component_id
        /\ \A c \in application_components : c.application_id \in applications

\* C19: versions are immutable once created: no step changes the version
\* string of a stored version, nor, where the table has them, its feature
\* list or its bug-fix list.
C19_VersionsImmutable ==
    [][\A i \in DOMAIN versions :
          i \in DOMAIN versions'
             => /\ versions'[i].version = versions[i].version
                /\ backend \in {"sqlite", "hier"}
                      => /\ versions'[i].features = versions[i].features
                         /\ versions'[i].bug_fixes = versions[i].bug_fixes]_vars

C22_TransitionStamps ==
    (/\ result.op \in {"update_deployment_status", "update_deployment_status_new"}
     /\ ~result.error)
        => \A d \in Range(DEPLOYMENTS_DB) \cup Range(deployments) :
               d.id = result.id
                  => /\ Lower(result.status) \in {"success", "failed", "rollback"}
                           => d.completed_at # None
                     /\ Lower(result.status) = "in_progress" => d.started_at # None

C21_RegistryConsistent ==
    /\ [](/\ DOMAIN tools = DOMAIN handlers
          /\ result.op \in {"list_tools", "get_tool_names"}
                => {r.name : r \in result.rows} = DOMAIN tools
          /\ result.op = "get_tool_names" => result.total = Cardinality(DOMAIN tools)
          /\ result.op = "execute_tool"
                => IF result.app \in DOMAIN tools
                   THEN ~result.error /\ result.handler = handlers[result.app]
                   ELSE result.error /\ result.handler = "")
    /\ [][/\ (result'.op = "register_tool" /\ ~result'.error)
                => /\ DOMAIN tools' = DOMAIN tools \cup {result'.app}
                   /\ handlers'[result'.app] = result'.handler
                   /\ tools'[result'.app] = result'.notes
                   /\ \A n \in DOMAIN tools \ {result'.app} :
                         tools'[n] = tools[n] /\ handlers'[n] = handlers[n]
          /\ result'.op = "unregister_tool"
                => /\ DOMAIN tools' = DOMAIN tools \ {result'.app}
                   /\ result'.error = (result'.app \notin DOMAIN tools)
                   /\ \A n \in DOMAIN tools' :
                         tools'[n] = tools[n] /\ handlers'[n] = handlers[n]
          /\ (result'.op \notin {"register_tool", "unregister_tool"}
                \/ (result'.op = "register_tool" /\ result'.error))
                => tools' = tools /\ handlers' = handlers]_vars

\* C21 witness: echo was registered twice and unregistered never, calculator
\* is not registered, and executing echo called its second handler
C21_ExecutedLatestHandler ==
    /\ result.op = "execute_tool" /\ ~result.error
    /\ result.app = "echo" /\ result.handler = "h2"
    /\ DOMAIN tools = {"echo"}
    /\ tools["echo"] = "d2"

\* C24: two calls that append a deployment for the same key with distinct
\* ids, interleaved in any order, both succeed, and once both have ended
\* both rows are in the ledger: the key has two deployments more.
C24_ConcurrentAppendsLossless ==
    (/\ backend = "sqlite"
     /\ \A p \in Procs : pc[p] \in {"returned", "raised"})
        => /\ \A p \in Procs : pc[p] = "returned"
           /\ \A p \in Procs : local[p].deployment.id \in DeploymentIds
           /\ Len(deployments) = 2

\* C29: delete_component never deletes a component that has a version: when
\* its DELETE runs, no version of the component has been committed since it
\* counted none, so no version row is left referencing the deleted component.
C29_CheckAndDeleteNotSeparated ==
    [][\A p \in Procs :
          (backend = "hier" /\ pc[p] = "delete" /\ pc'[p] = "returned")
             => /\ VersionCount(local[p].component_id) = 0
                /\ \A i \in DOMAIN versions' :
                      versions'[i].component_id # local[p].component_id]_vars

\* C25: for each (component, environment) that has a successful deployment,
\* get_environment_summary (dashboard_tools and enhanced_dashboard) returns
\* exactly one row, the successful deployment of the key with the greatest
\* deployed_at; it returns no row of another status.
C25_LastSuccessfulPerKey ==
    result.op \in {"get_environment_summary", "enhanced_get_environment_summary"} =>
        /\ \A r \in result.rows : r.status = "success"
        /\ \A d \in Range(deployments) :
              d.status = "success" =>
                 LET key == {r \in result.rows :
                                /\ r.component_id = d.component_id
                                /\ r.environment = d.environment}
                 IN  /\ Cardinality(key) = 1
                     /\ \A r \in key : d.deployed_at <= r.deployed_at

C27_NotesRecordedAndKept ==
    /\ [](((result.op = "update_deployment_status" /\ ~result.error
              /\ result.notes # "") =>
             \E d \in Range(DEPLOYMENTS_DB) :
                 d.id = result.id /\ result.notes \in Range(d.notes))
          /\ ((result.op = "update_deployment_status_new" /\ ~result.error
                 /\ result.notes # "") =>
                \E d \in Range(deployments) :
                    d.id = result.id /\ d.notes = result.notes))
    /\ [][\A i \in DOMAIN DEPLOYMENTS_DB :
             i \in DOMAIN DEPLOYMENTS_DB' =>
                 /\ Len(DEPLOYMENTS_DB[i].notes) <= Len(DEPLOYMENTS_DB'[i].notes)
                 /\ \A k \in DOMAIN DEPLOYMENTS_DB[i].notes :
                       DEPLOYMENTS_DB'[i].notes[k] = DEPLOYMENTS_DB[i].notes[k]]_vars

====
